---- MODULE Spec2Model ----
(***************************************************************************)
(* Model of the useDraggable binding of vue-draggable-plus                 *)
(* (src/src/__docs__/table-column/index.zh-CN.md, lines 22-229).           *)
(*                                                                         *)
(* Two controllers (two calls of useDraggable, as in the clone demos) bind *)
(* two reactive lists to DOM container elements through the external       *)
(* Sortable engine.  The engine is modelled at its interface: constructor, *)
(* option(), destroy(), the expando handle it installs on its element and  *)
(* the lifecycle events it dispatches to the handlers found in its options.*)
(***************************************************************************)
EXTENDS Integers, Sequences, FiniteSets, TLC

\* ------------------------------------------------------------------ bounds
\* engines constructed in one run (new Sortable calls)
MaxEngines == 2
\* drag gestures in one run, and in SpecFrame gestures and method calls
MaxGestures == 1
\* event indices range over 0..MaxIndex
MaxIndex == 2

Controllers == {1, 2}
Elements == {"e1", "e2", "e3"}
Indices == 0..MaxIndex
EventNames == {"onStart", "onAdd", "onRemove", "onUpdate"}

\* ------------------------------------------------------------------ values
\* JavaScript undefined / null, as an array element and as a reference
Undefined == [ref |-> 0, val |-> "undefined", gen |-> 0]
Null == [kind |-> "null", e |-> "-"]

\* list items are objects: ref is the object's identity, val/gen its content
Item(r, v) == [ref |-> r, val |-> v, gen |-> 0]

\* the two bound collections at setup
InitialLists ==
  (1 :> <<Item(1, "A"), Item(2, "B"), Item(3, "C")>>)
    @@ (2 :> <<Item(4, "X"), Item(5, "Y")>>)

\* values an element reference (el) or an explicit target can hold
ElementRef(e) == [kind |-> "element", e |-> e]
ElRefs ==
  {Null, ElementRef("e1")}
    \cup {[kind |-> k, e |-> e] : k \in {"selector", "component"}, e \in {"e1", "-"}}

\* the caller's configurations (options): the user handlers it supplies, and
\* the customUpdate, clone, immediate and group.pull keys
OptionValues ==
  << [handlers |-> {}, customUpdate |-> FALSE, clone |-> "default",
      immediate |-> "undefined", pull |-> "unset"],
     [handlers |-> EventNames, customUpdate |-> FALSE, clone |-> "default",
      immediate |-> "true", pull |-> "clone"],
     [handlers |-> {"onStart", "onUpdate"}, customUpdate |-> TRUE, clone |-> "custom",
      immediate |-> "false", pull |-> "unset"] >>
OptionIds == DOMAIN OptionValues

VARIABLES
  el,        \* el[c]: the configured element reference of controller c
  list,      \* list[c]: list.value of controller c
  arrays,    \* the array objects: obj[c] the one list[c].value is, mem their contents
  options,   \* options[c]: the caller's current configuration (an OptionIds)
  captured,  \* captured[c]: optionsUnref, and immediate, clone, customUpdate
             \* destructured from it at setup
  mounted,   \* mounted[c]: "setup", "mounted" or "unmounted"
  instance,  \* instance[c]: the engine in the instance slot, 0 for null
  engines,   \* every engine constructed so far, by id
  elProps,   \* elProps[e]: the value of the Sortable expando property of e
  drag,      \* the gesture in progress
  gestures,  \* gestures (in SpecFrame: and method calls) begun so far
  log,       \* the calls made during the last operation, in order
  err,       \* the error the last operation raised, "none" if it returned
  last       \* the last operation, its arguments and the state it started from

vars == <<el, list, arrays, options, captured, mounted, instance, engines, elProps,
          drag, gestures, log, err, last>>

\* ------------------------------------------------------------------ utils
Min(a, b) == IF a < b THEN a ELSE b

\* array[i] of JavaScript: undefined outside the array
At(array, i) == IF i \in 0..(Len(array) - 1) THEN array[i + 1] ELSE Undefined

isUndefined(x) == x = Undefined

isString(x) == x.kind = "selector"

isHTMLElement(x) == x.kind = "element"

\* array.splice(index, 0, element)
insertElement(array, index, element) ==
  LET k == Min(index, Len(array))
  IN SubSeq(array, 1, k) \o <<element>> \o SubSeq(array, k + 1, Len(array))

\* array.splice(index, 1)
removeElement(array, index) ==
  IF index < Len(array)
    THEN SubSeq(array, 1, index) \o SubSeq(array, index + 2, Len(array))
    ELSE array

\* array.splice(to, 0, array.splice(from, 1)[0])
moveArrayElement(array, from, to) ==
  insertElement(removeElement(array, from), to, At(array, from))

\* the handler the binding installs for an event, and the caller's
PresetHandler(c, n) == [k |-> "preset", n |-> n, by |-> c]
UserHandler(o, n) == [k |-> "user", n |-> n, by |-> o]

\* both sides' handlers for the same event name run, source's first
mergeOptionsEvents(source, target) ==
  [h |-> [n \in EventNames |->
            (IF n \in DOMAIN source THEN <<source[n]>> ELSE <<>>)
              \o (IF n \in DOMAIN target.h THEN <<target.h[n]>> ELSE <<>>)],
   group |-> target.group]

\* ------------------------------------------------------------------ clone
\* a reference held by no item of any list: what a newly created object gets
RECURSIVE MaxRefOf(_)
MaxRefOf(array) ==
  IF array = <<>> THEN 0
  ELSE LET m == MaxRefOf(Tail(array))
       IN IF Head(array).ref > m THEN Head(array).ref ELSE m

FreshRef(lists) ==
  LET a == MaxRefOf(lists[1])
      b == MaxRefOf(lists[2])
  IN (IF a > b THEN a ELSE b) + 1

\* JSON.parse(JSON.stringify(element)): equal content in a new object
defaultClone(element, fresh) ==
  IF element = Undefined THEN element ELSE [element EXCEPT !.ref = fresh]

\* the caller's clone of the custom-clone demo: a new object with new content
customClone(element, fresh) ==
  [ref |-> fresh, val |-> element.val, gen |-> element.gen + 1]

\* clone, as destructured from the options at setup
clone(c, element, fresh) ==
  IF captured[c].clone = "custom"
    THEN customClone(element, fresh)
    ELSE defaultClone(element, fresh)

\* ------------------------------------------------------------------ handlers
\* A handler maps the state it runs in, st = [list, arrays, stash, log, err],
\* to the state it leaves; evt is the engine's event object.  log records every
\* call made (a handler, clone, customUpdate) with the event it was made for.

\* const newList = [...list.value]; (the change of newList); list.value = newList:
\* the changed copy is a new array object, and the ref of c holds it
assign(st, c, newList) ==
  [st EXCEPT !.list[c] = newList,
             !.arrays = [mem |-> Append(@.mem, newList),
                         obj |-> [@.obj EXCEPT ![c] = Len(st.arrays.mem) + 1]]]

\* the bound collection registered on the engine whose handle el carries;
\* 0 is undefined
getListFromEl(e) ==
  LET key == elProps[e]
  IN IF key.kind = "absent" THEN 0
     ELSE IF key.kind \in {"null", "foreign"} THEN 0
     ELSE engines[key.id].list

onStart(c, evt, st) ==
  LET element == At(st.list[c], evt.oldIndex)
  IN [st EXCEPT !.stash = clone(c, element, FreshRef(st.list)),
                !.log = Append(@, [k |-> "clone", n |-> captured[c].clone, by |-> c,
                                   evt |-> evt])]

\* onAdd without the check for a missing source item
onAdd_insertsUndefined(c, evt, st) ==
  LET fromList == getListFromEl(evt.from)
  IN IF fromList = 0
       THEN [st EXCEPT !.err = "TypeError"]
       ELSE assign(st, c, insertElement(st.list[c], evt.newDraggableIndex,
                                        At(st.list[fromList], evt.oldIndex)))

\* onAdd that also takes the item out of the collection it came from
onAdd_takesFromSource(c, evt, st) ==
  LET fromList == getListFromEl(evt.from)
  IN IF fromList = 0
       THEN [st EXCEPT !.err = "TypeError"]
       ELSE LET item == At(st.list[fromList], evt.oldIndex)
                added == assign(st, c, insertElement(st.list[c], evt.newDraggableIndex,
                                                     item))
            IN IF isUndefined(item)
                 THEN st
                 ELSE assign(added, fromList,
                             removeElement(added.list[fromList], evt.oldIndex))

onAdd(c, evt, st) ==
  LET fromList == getListFromEl(evt.from)
  IN IF fromList = 0
       THEN [st EXCEPT !.err = "TypeError"]
       ELSE LET item == At(st.list[fromList], evt.oldIndex)
            IN IF isUndefined(item)
                 THEN st
                 ELSE assign(st, c, insertElement(st.list[c], evt.newDraggableIndex,
                                                  item))

\* onRemove splicing list.value itself: removeElement(list.value, oldDraggableIndex)
onRemove_splicesInPlace(c, evt, st) ==
  LET newList == removeElement(st.list[c], evt.oldDraggableIndex)
  IN [st EXCEPT !.list[c] = newList, !.arrays.mem[st.arrays.obj[c]] = newList]

onRemove(c, evt, st) ==
  assign(st, c, removeElement(st.list[c], evt.oldDraggableIndex))

\* onUpdate reading the child indices instead of the draggable indices
onUpdate_childIndices(c, evt, st) ==
  IF captured[c].customUpdate
    THEN [st EXCEPT !.log = Append(@, [k |-> "customUpdate", n |-> "onUpdate", by |-> c,
                                       evt |-> evt])]
    ELSE assign(st, c, moveArrayElement(st.list[c], evt.oldIndex, evt.newIndex))

\* onUpdate without the return after customUpdate
onUpdate_alsoMoves(c, evt, st) ==
  LET moved == assign(st, c, moveArrayElement(st.list[c], evt.oldDraggableIndex,
                                              evt.newDraggableIndex))
  IN IF captured[c].customUpdate
       THEN [moved EXCEPT !.log = Append(@, [k |-> "customUpdate", n |-> "onUpdate",
                                             by |-> c, evt |-> evt])]
       ELSE moved

\* onUpdate reading customUpdate from the options as they are at the event
onUpdate_currentOptions(c, evt, st) ==
  IF OptionValues[options[c]].customUpdate
    THEN [st EXCEPT !.log = Append(@, [k |-> "customUpdate", n |-> "onUpdate", by |-> c,
                                       evt |-> evt])]
    ELSE assign(st, c, moveArrayElement(st.list[c], evt.oldDraggableIndex,
                                        evt.newDraggableIndex))

onUpdate(c, evt, st) ==
  IF captured[c].customUpdate
    THEN [st EXCEPT !.log = Append(@, [k |-> "customUpdate", n |-> "onUpdate", by |-> c,
                                       evt |-> evt])]
    ELSE assign(st, c, moveArrayElement(st.list[c], evt.oldDraggableIndex,
                                        evt.newDraggableIndex))

\* one handler of a merged handler: the binding's, or the caller's (which
\* the model only records)
RunHandler(h, evt, st) ==
  LET called == [st EXCEPT !.log = Append(@, [k |-> h.k, n |-> h.n, by |-> h.by,
                                              evt |-> evt])]
  IN IF h.k = "preset"
       THEN CASE h.n = "onStart" -> onStart(h.by, evt, called)
              [] h.n = "onAdd" -> onAdd(h.by, evt, called)
              [] h.n = "onRemove" -> onRemove(h.by, evt, called)
              [] h.n = "onUpdate" -> onUpdate(h.by, evt, called)
       ELSE called

\* the merged handler: its parts in order, an error ending the call
RECURSIVE mergeExecuted(_, _, _)
mergeExecuted(hs, evt, st) ==
  IF hs = <<>> \/ st.err # "none" THEN st
  ELSE mergeExecuted(Tail(hs), evt, RunHandler(Head(hs), evt, st))

\* the engine calls options[name] with the event
Dispatch(id, name, evt) ==
  mergeExecuted(engines[id].h[name], evt,
                [list |-> list, arrays |-> arrays, stash |-> drag.stash, log |-> <<>>,
                 err |-> "none"])

\* ------------------------------------------------------------------ options
presetOptions(c) == [n \in EventNames |-> PresetHandler(c, n)]

\* the caller's options without immediate and clone
restOptions(c) ==
  LET o == OptionValues[options[c]]
  IN [h |-> [n \in o.handlers |-> UserHandler(options[c], n)],
      group |-> o.pull]

mergeOptions(c) == mergeOptionsEvents(presetOptions(c), restOptions(c))

\* instance.option(key, value) for every key of the merged options: a key
\* the options no longer hold keeps the value the engine has
ApplyOptions(engine, merged) ==
  [engine EXCEPT !.h = merged.h,
                 !.group = IF merged.group = "unset" THEN @ ELSE merged.group]

\* ------------------------------------------------------------------ target
querySelector(element) == IF element.e = "-" THEN Null ELSE ElementRef(element.e)

RootElement(component) == IF component.e = "-" THEN Null ELSE ElementRef(component.e)

\* the element start binds to; Null stands for the thrown
\* Error('Root element not found')
\* getTarget without its argument
getTarget_ignoresArgument(c, target) ==
  LET element == el[c]
      first == IF isString(element) THEN querySelector(element) ELSE element
  IN IF first # Null /\ ~isHTMLElement(first) THEN RootElement(first) ELSE first

getTarget(c, target) ==
  LET element == el[c]
      first == IF target # Null THEN target
               ELSE IF isString(element) THEN querySelector(element)
               ELSE element
      finalTarget == IF first # Null /\ ~isHTMLElement(first)
                       THEN RootElement(first)
                       ELSE first
  IN finalTarget

\* ------------------------------------------------------------------ engine
\* values of the expando property an engine installs on its element
Absent == [kind |-> "absent", id |-> 0]
Nulled == [kind |-> "null", id |-> 0]
Foreign == [kind |-> "foreign", id |-> 0]
Handle(id) == [kind |-> "engine", id |-> id]

\* new Sortable(target, merged), then instance.__list = list; destroys counts
\* the calls of the engine's destroy
NewEngine(c, e, merged) ==
  [owner |-> c, el |-> e, destroyed |-> FALSE, destroys |-> 0, disabled |-> FALSE,
   h |-> merged.h, group |-> merged.group, list |-> c]

Live(id) == id \in DOMAIN engines /\ ~engines[id].destroyed

\* Sortable.prototype.destroy on engine id: the engine releases its element
\* and its options, and the expando of the element is set to null
DestroyedEngines(es, id) ==
  [es EXCEPT ![id] = [@ EXCEPT !.destroyed = TRUE, !.destroys = @ + 1,
                                !.disabled = FALSE,
                                !.h = [n \in EventNames |-> <<>>], !.group = "unset"]]
DestroyedProps(props, es, id) == [props EXCEPT ![es[id].el] = Nulled]

\* the gesture record of no gesture (stash: the clone kept on the dragged
\* node, cloned: whether the gesture called the clone function), and the record
\* of an operation: its
\* name, the controller c and engine id it ran on, the other controller of a
\* drop (peer), its arguments, the lists before it (pre) and, for remove, the
\* lists before the add that came with it (pre0), what it returned (ret)
NoEvt == [from |-> "-", oldIndex |-> 0, newIndex |-> 0,
          oldDraggableIndex |-> 0, newDraggableIndex |-> 0, pullMode |-> "-"]
Idle == [phase |-> "idle", src |-> 0, dst |-> 0, stash |-> Undefined,
         cloned |-> FALSE, evt |-> NoEvt, pre |-> InitialLists]
Op(name, c, id, evt, pre, pre0) ==
  [op |-> name, c |-> c, id |-> id, peer |-> 0, target |-> Null, evt |-> evt,
   pre |-> pre, pre0 |-> pre0, ret |-> "undefined"]
Call(name, c, id) == Op(name, c, id, NoEvt, list, list)

\* ------------------------------------------------------------------ setup
\* the state after useDraggable({el, list, options}) has run for both
\* controllers: nothing is constructed before mount
Setup(els, opts) ==
  /\ el = els
  /\ list = InitialLists
  /\ arrays = [mem |-> <<InitialLists[1], InitialLists[2]>>,
               obj |-> [c \in Controllers |-> c]]
  /\ options = opts
  /\ captured = [c \in Controllers |->
       [optionsUnref |-> opts[c],
        immediate |-> OptionValues[opts[c]].immediate # "false",
        clone |-> OptionValues[opts[c]].clone,
        customUpdate |-> OptionValues[opts[c]].customUpdate]]
  /\ mounted = [c \in Controllers |-> "setup"]
  /\ instance = [c \in Controllers |-> 0]
  /\ engines = <<>>
  /\ elProps = [e \in Elements |-> IF e = "e3" THEN Foreign ELSE Absent]
  /\ drag = Idle
  /\ gestures = 0
  /\ log = <<>>
  /\ err = "none"
  /\ last = Call("setup", 0, 0)

\* two lists bound to the containers e1 and e2: the first set up with or
\* without customUpdate and a clone function, the second with no options
Init ==
  \E o \in {1, 3} :
    Setup((1 :> ElementRef("e1")) @@ (2 :> ElementRef("e2")), (1 :> o) @@ (2 :> 1))

\* the first controller's element reference is any value of ElRefs
InitLifecycle ==
  \E r \in ElRefs, o \in OptionIds :
    Setup((1 :> r) @@ (2 :> ElementRef("e2")), (1 :> o) @@ (2 :> 1))

\* ------------------------------------------------------------------ controller
\* destroy without instance = null
destroy_keepsSlot(c, es, props, inst) ==
  IF inst[c] = 0
    THEN [engines |-> es, elProps |-> props, instance |-> inst]
    ELSE [engines |-> DestroyedEngines(es, inst[c]),
          elProps |-> DestroyedProps(props, es, inst[c]),
          instance |-> inst]

\* destroy that clears the slot and leaves the engine as it is
destroy_slotOnly(c, es, props, inst) ==
  [engines |-> es, elProps |-> props, instance |-> [inst EXCEPT ![c] = 0]]

\* methods.destroy: instance?.destroy(); instance = null
destroy(c, es, props, inst) ==
  IF inst[c] = 0
    THEN [engines |-> es, elProps |-> props, instance |-> inst]
    ELSE [engines |-> DestroyedEngines(es, inst[c]),
          elProps |-> DestroyedProps(props, es, inst[c]),
          instance |-> [inst EXCEPT ![c] = 0]]

\* start destroying the instance before it resolves the target
start_destroysFirst(c, target) ==
  LET t == getTarget(c, target)
      d == IF instance[c] # 0
             THEN destroy(c, engines, elProps, instance)
             ELSE [engines |-> engines, elProps |-> elProps, instance |-> instance]
      id == Len(d.engines) + 1
  IN IF t = Null
       THEN [engines |-> d.engines, elProps |-> d.elProps, instance |-> d.instance,
             err |-> "Root element not found"]
       ELSE [engines |-> Append(d.engines, NewEngine(c, t.e, mergeOptions(c))),
             elProps |-> [d.elProps EXCEPT ![t.e] = Handle(id)],
             instance |-> [d.instance EXCEPT ![c] = id],
             err |-> "none"]

\* start without the destroy of the instance it replaces
start_keepsInstance(c, target) ==
  LET t == getTarget(c, target)
  IN IF t = Null
       THEN [engines |-> engines, elProps |-> elProps, instance |-> instance,
             err |-> "Root element not found"]
       ELSE LET id == Len(engines) + 1
            IN [engines |-> Append(engines, NewEngine(c, t.e, mergeOptions(c))),
                elProps |-> [elProps EXCEPT ![t.e] = Handle(id)],
                instance |-> [instance EXCEPT ![c] = id],
                err |-> "none"]

\* start(target): the state it leaves, err naming the error it throws
start(c, target) ==
  LET t == getTarget(c, target)
  IN IF t = Null
       THEN [engines |-> engines, elProps |-> elProps, instance |-> instance,
             err |-> "Root element not found"]
       ELSE LET d == IF instance[c] # 0
                       THEN destroy(c, engines, elProps, instance)
                       ELSE [engines |-> engines, elProps |-> elProps,
                             instance |-> instance]
                id == Len(d.engines) + 1
            IN [engines |-> Append(d.engines, NewEngine(c, t.e, mergeOptions(c))),
                elProps |-> [d.elProps EXCEPT ![t.e] = Handle(id)],
                instance |-> [d.instance EXCEPT ![c] = id],
                err |-> "none"]

\* start never constructs beyond the bound of the model
CanConstruct == Len(engines) < MaxEngines

Start(c, target) ==
  /\ CanConstruct
  /\ drag.phase # "added"
  /\ LET r == start(c, target)
     IN /\ engines' = r.engines
        /\ elProps' = r.elProps
        /\ instance' = r.instance
        /\ err' = r.err
  /\ log' = <<>>
  /\ last' = [Call("start", c, instance[c]) EXCEPT !.target = target]
  /\ UNCHANGED <<el, list, arrays, options, captured, mounted, drag, gestures>>

Destroy(c) ==
  /\ drag.phase # "added"
  /\ LET r == destroy(c, engines, elProps, instance)
     IN /\ engines' = r.engines
        /\ elProps' = r.elProps
        /\ instance' = r.instance
  /\ log' = <<>>
  /\ err' = "none"
  /\ last' = Call("destroy", c, instance[c])
  /\ UNCHANGED <<el, list, arrays, options, captured, mounted, drag, gestures>>

\* pause and resume with their values exchanged
option_negates(c, es, inst, value) ==
  IF inst[c] = 0 THEN es ELSE [es EXCEPT ![inst[c]].disabled = ~value]

\* methods.option(name, value): instance?.option(name, value)
option(c, es, inst, value) ==
  IF inst[c] = 0 THEN es ELSE [es EXCEPT ![inst[c]].disabled = value]

\* pause: methods.option('disabled', true)
Pause(c) ==
  /\ drag.phase # "added"
  /\ engines' = option(c, engines, instance, TRUE)
  /\ log' = <<>>
  /\ err' = "none"
  /\ last' = Call("pause", c, instance[c])
  /\ UNCHANGED <<el, list, arrays, options, captured, mounted, instance, elProps, drag>>

\* resume: methods.option('disabled', false)
Resume(c) ==
  /\ drag.phase # "added"
  /\ engines' = option(c, engines, instance, FALSE)
  /\ log' = <<>>
  /\ err' = "none"
  /\ last' = Call("resume", c, instance[c])
  /\ UNCHANGED <<el, list, arrays, options, captured, mounted, instance, elProps, drag>>

\* methods.option('disabled', value) called by the caller: with value
\* undefined the engine returns the option, otherwise it sets it
Option(c, value) ==
  /\ drag.phase # "added"
  /\ engines' = IF value = "undefined" THEN engines
                ELSE option(c, engines, instance, value = "true")
  /\ log' = <<>>
  /\ err' = "none"
  /\ last' = [Call("option", c, instance[c]) EXCEPT !.ret =
                IF instance[c] = 0 \/ value # "undefined" THEN "undefined"
                ELSE IF engines[instance[c]].disabled THEN "true" ELSE "false"]
  /\ UNCHANGED <<el, list, arrays, options, captured, mounted, instance, elProps, drag>>

\* instance?.method(): what the engine returns, undefined without an instance
Delegate(name, c, returned) ==
  /\ drag.phase # "added"
  /\ log' = <<>>
  /\ err' = "none"
  /\ last' = [Call(name, c, instance[c]) EXCEPT !.ret =
                IF instance[c] = 0 THEN "undefined" ELSE returned]
  /\ UNCHANGED <<el, list, arrays, options, captured, mounted, instance, engines, elProps,
                 drag>>

\* save: () => instance?.save()
Save(c) == Delegate("save", c, "undefined")

\* toArray: () => instance?.toArray()
ToArray(c) == Delegate("toArray", c, "order")

\* closest: (...args) => instance?.closest(...args)
Closest(c) == Delegate("closest", c, "element")

\* the keys forEachObject visits in the merged options, and the calls of
\* instance.option(key, value) the watcher makes: none without an instance
OptionKeys(merged) ==
  <<"onUpdate", "onStart", "onAdd", "onRemove">>
    \o (IF merged.group = "unset" THEN <<>> ELSE <<"group">>)
optionCalls(c, inst, merged) ==
  IF inst[c] = 0 THEN <<>>
  ELSE [i \in DOMAIN OptionKeys(merged) |->
          [k |-> "option", n |-> OptionKeys(merged)[i], by |-> c, evt |-> NoEvt]]

\* the watcher setting the binding's handlers again instead of the merged options
watchOptions_presetOnly(c, es, inst, merged) ==
  IF inst[c] = 0 THEN es
  ELSE [es EXCEPT ![inst[c]].h = [n \in EventNames |-> <<presetOptions(c)[n]>>]]

\* the watcher of the options: with a live instance, every key of the merged
\* options is set on it
watchOptions(c, es, inst, merged) ==
  IF inst[c] = 0 THEN es ELSE [es EXCEPT ![inst[c]] = ApplyOptions(@, merged)]

\* the caller changes the configuration and the watcher runs (it is flushed
\* before the next DOM event is dispatched)
ConfigChange(c, o) ==
  /\ drag.phase # "added"
  /\ o # options[c]
  /\ options' = [options EXCEPT ![c] = o]
  /\ engines' = watchOptions(c, engines, instance, mergeOptions(c)')
  /\ log' = optionCalls(c, instance, mergeOptions(c)')
  /\ err' = "none"
  /\ last' = Call("config", c, instance[c])
  /\ UNCHANGED <<el, list, arrays, captured, mounted, instance, elProps, drag, gestures>>

\* the mount callback calling start() whatever immediate is
Mount_alwaysStarts(c) ==
  /\ mounted[c] = "setup"
  /\ drag.phase # "added"
  /\ mounted' = [mounted EXCEPT ![c] = "mounted"]
  /\ CanConstruct
  /\ LET r == start(c, Null)
     IN /\ engines' = r.engines
        /\ elProps' = r.elProps
        /\ instance' = r.instance
        /\ err' = r.err
  /\ log' = <<>>
  /\ last' = Call("mount", c, instance[c])
  /\ UNCHANGED <<el, list, arrays, options, captured, drag>>

\* tryOnMounted(() => { immediate && start() })
Mount(c) ==
  /\ mounted[c] = "setup"
  /\ drag.phase # "added"
  /\ mounted' = [mounted EXCEPT ![c] = "mounted"]
  /\ IF captured[c].immediate
       THEN /\ CanConstruct
            /\ LET r == start(c, Null)
               IN /\ engines' = r.engines
                  /\ elProps' = r.elProps
                  /\ instance' = r.instance
                  /\ err' = r.err
       ELSE /\ err' = "none"
            /\ UNCHANGED <<engines, elProps, instance>>
  /\ log' = <<>>
  /\ last' = Call("mount", c, instance[c])
  /\ UNCHANGED <<el, list, arrays, options, captured, drag>>

\* tryOnUnmounted(methods.destroy)
Unmount(c) ==
  /\ mounted[c] = "mounted"
  /\ drag.phase # "added"
  /\ mounted' = [mounted EXCEPT ![c] = "unmounted"]
  /\ LET r == destroy(c, engines, elProps, instance)
     IN /\ engines' = r.engines
        /\ elProps' = r.elProps
        /\ instance' = r.instance
  /\ log' = <<>>
  /\ err' = "none"
  /\ last' = Call("unmount", c, instance[c])
  /\ UNCHANGED <<el, list, arrays, options, captured, drag>>

\* ------------------------------------------------------------------ gestures
\* The engine dispatches the events of a gesture: start on the source, then
\* update on the source (a drop in the same container), or add on the
\* destination followed at once by remove on the source (a drop elsewhere).

PullMode(id) == IF engines[id].group = "clone" THEN "clone" ELSE "move"

Usable(id) == Live(id) /\ ~engines[id].disabled

\* what a dispatch leaves in the variables the handlers can reach
Fired(st) ==
  /\ list' = st.list
  /\ arrays' = st.arrays
  /\ log' = st.log
  /\ err' = st.err

DragStart(id, oi, odi) ==
  /\ drag.phase = "idle"
  /\ gestures < MaxGestures
  /\ Usable(id)
  /\ LET evt == [NoEvt EXCEPT !.from = engines[id].el, !.oldIndex = oi,
                              !.oldDraggableIndex = odi, !.pullMode = PullMode(id)]
         st == Dispatch(id, "onStart", evt)
     IN /\ Fired(st)
        /\ drag' = [phase |-> "started", src |-> id, dst |-> 0, stash |-> st.stash,
                    cloned |-> \E i \in DOMAIN st.log : st.log[i].k = "clone",
                    evt |-> evt, pre |-> list]
        /\ last' = Op("onStart", engines[id].owner, id, evt, list, list)
  /\ gestures' = gestures + 1
  /\ UNCHANGED <<el, options, captured, mounted, instance, engines, elProps>>

\* the item is dropped in its own container
DropSame(ni, ndi) ==
  /\ drag.phase = "started"
  /\ Usable(drag.src)
  /\ LET evt == [drag.evt EXCEPT !.newIndex = ni, !.newDraggableIndex = ndi]
         st == Dispatch(drag.src, "onUpdate", evt)
     IN /\ Fired(st)
        /\ last' = Op("onUpdate", engines[drag.src].owner, drag.src, evt, list, list)
  /\ drag' = Idle
  /\ UNCHANGED <<el, options, captured, mounted, instance, engines, elProps, gestures>>

\* the item is dropped in the container of another engine: add on that engine
DropOther(id, ni, ndi) ==
  /\ drag.phase = "started"
  /\ Usable(drag.src)
  /\ Usable(id)
  /\ engines[id].el # engines[drag.src].el
  /\ LET evt == [drag.evt EXCEPT !.newIndex = ni, !.newDraggableIndex = ndi]
         st == Dispatch(id, "onAdd", evt)
     IN /\ Fired(st)
        /\ last' = [Op("onAdd", engines[id].owner, id, evt, list, list)
                      EXCEPT !.peer = engines[drag.src].owner]
        /\ drag' = IF st.err = "none"
                     THEN [drag EXCEPT !.phase = "added", !.dst = id, !.evt = evt,
                                       !.pre = list]
                     ELSE Idle
  /\ UNCHANGED <<el, options, captured, mounted, instance, engines, elProps, gestures>>

\* remove on the source, dispatched right after add
FireRemove ==
  /\ drag.phase = "added"
  /\ LET st == Dispatch(drag.src, "onRemove", drag.evt)
     IN /\ Fired(st)
        /\ last' = [Op("onRemove", engines[drag.src].owner, drag.src, drag.evt,
                         list, drag.pre)
                      EXCEPT !.peer = engines[drag.dst].owner]
  /\ drag' = Idle
  /\ UNCHANGED <<el, options, captured, mounted, instance, engines, elProps, gestures>>

\* the gesture ends without a drop
CancelDrag ==
  /\ drag.phase = "started"
  /\ drag' = Idle
  /\ log' = <<>>
  /\ err' = "none"
  /\ last' = Call("cancel", 0, drag.src)
  /\ UNCHANGED <<el, list, arrays, options, captured, mounted, instance, engines, elProps,
                 gestures>>

\* no live engine of a controller is on element e
Unmanaged(e) == \A id \in DOMAIN engines : Live(id) => engines[id].el # e

\* an item dragged out of a container no controller manages is dropped in
\* the container of engine id
ForeignAdd(id, e, oi, odi, ni, ndi) ==
  /\ drag.phase = "idle"
  /\ gestures < MaxGestures
  /\ Usable(id)
  /\ Unmanaged(e)
  /\ LET evt == [from |-> e, oldIndex |-> oi, newIndex |-> ni,
                 oldDraggableIndex |-> odi, newDraggableIndex |-> ndi,
                 pullMode |-> "move"]
         st == Dispatch(id, "onAdd", evt)
     IN /\ Fired(st)
        /\ last' = Op("onAdd", engines[id].owner, id, evt, list, list)
  /\ gestures' = gestures + 1
  /\ UNCHANGED <<el, options, captured, mounted, instance, engines, elProps, drag>>

\* ------------------------------------------------------------------ specification
EngineIds == 1..MaxEngines

\* the index and the draggable index of one child: the draggable children are
\* among the children, so the draggable index is the smaller; a container
\* holds at most one child that is not draggable (a header, say)
IndexPairs == {p \in Indices \X Indices : p[2] \in {p[1], p[1] - 1}}

Targets == {Null} \cup {ElementRef(e) : e \in Elements}

\* in the gesture specification each controller is started once and the
\* first one is the one reconfigured and destroyed
NeverStarted(c) == \A id \in DOMAIN engines : engines[id].owner # c

Next ==
  \/ \E c \in Controllers : NeverStarted(c) /\ Start(c, Null)
  \/ Destroy(1)
  \/ \E o \in OptionIds : ConfigChange(1, o)
  \/ \E id \in EngineIds, i \in IndexPairs : DragStart(id, i[1], i[2])
  \/ \E j \in IndexPairs : DropSame(j[1], j[2])
  \/ \E id \in EngineIds, j \in IndexPairs : DropOther(id, j[1], j[2])
  \/ FireRemove
  \/ CancelDrag
  \/ \E id \in EngineIds, e \in Elements, i \in IndexPairs :
       ForeignAdd(id, e, i[1], i[2], i[1], i[2])

Spec == Init /\ [][Next]_vars

NextLifecycle ==
  \/ \E t \in Targets : Start(1, t)
  \/ Start(2, Null)
  \/ \E c \in Controllers : Destroy(c)
  \/ Pause(1) /\ UNCHANGED gestures
  \/ Resume(1) /\ UNCHANGED gestures
  \/ \E o \in OptionIds : ConfigChange(1, o)
  \/ Mount(1) /\ UNCHANGED gestures
  \/ Unmount(1) /\ UNCHANGED gestures

SpecLifecycle == InitLifecycle /\ [][NextLifecycle]_vars

\* the gestures together with the calls the caller makes on the first
\* controller: a call counts as a gesture does, so that MaxGestures bounds
\* both; the unmount callback, which runs once after the mount, is not counted
CanCall == gestures < MaxGestures
Counted == gestures' = gestures + 1

NextFrame ==
  \/ Next
  \/ CanCall /\ Pause(1) /\ Counted
  \/ CanCall /\ Resume(1) /\ Counted
  \/ \E v \in {"undefined", "true", "false"} : CanCall /\ Option(1, v) /\ Counted
  \/ CanCall /\ Save(1) /\ Counted
  \/ CanCall /\ ToArray(1) /\ Counted
  \/ CanCall /\ Closest(1) /\ Counted
  \/ CanCall /\ Mount(1) /\ Counted
  \/ Unmount(1) /\ UNCHANGED gestures

SpecFrame == Init /\ [][NextFrame]_vars

\* ------------------------------------------------------------------ claims
\* the engines controller c constructed that are not destroyed
LiveEnginesOf(c) ==
  {id \in DOMAIN engines : engines[id].owner = c /\ ~engines[id].destroyed}

\* the element a start of controller c with argument t is to bind
ExpectedTarget(c, t) == IF t # Null THEN t.e ELSE el[c].e

\* C1: on every controller, whatever start, destroy, pause, resume,
\* configuration changes, mount and unmount were run, the engines it
\* constructed and has not destroyed are at most one, the one in its instance
\* slot; a start that succeeds while an instance is live has destroyed that
\* instance, and the one live engine is a new one, bound to the resolved target.
C1_OneLiveEngine ==
  /\ \A c \in Controllers :
       LiveEnginesOf(c) = IF instance[c] = 0 THEN {} ELSE {instance[c]}
  /\ (last.op = "start" /\ err = "none") =>
       /\ Cardinality(LiveEnginesOf(last.c)) = 1
       /\ instance[last.c] # last.id
       /\ last.id # 0 => engines[last.id].destroyed
       /\ engines[instance[last.c]].el = ExpectedTarget(last.c, last.target)

\* start ran while an instance was live and bound the controller elsewhere
C1_Witness ==
  /\ last.op = "start"
  /\ err = "none"
  /\ last.id # 0
  /\ engines[last.id].el # engines[instance[last.c]].el

\* no container element resolves for start(t) on controller c
NothingResolves(c, t) ==
  /\ t = Null
  /\ \/ el[c] = Null
     \/ el[c].kind \in {"selector", "component"} /\ el[c].e = "-"

\* C10: start(target?) raises 'Root element not found' exactly when no
\* explicit target is given and the configured element is an empty reference,
\* a selector matching nothing or a component handle without a root element;
\* otherwise it raises nothing and the engine it constructs is on the explicit
\* target, or else on the element the configured reference resolves to.
C10_StartRaisesIffNoTarget ==
  (last.op = "start" \/ (last.op = "mount" /\ captured[last.c].immediate)) =>
    /\ err \in {"none", "Root element not found"}
    /\ (err = "Root element not found") <=> NothingResolves(last.c, last.target)
    /\ err = "none" =>
         /\ Live(instance[last.c])
         /\ instance[last.c] # last.id
         /\ engines[instance[last.c]].el = ExpectedTarget(last.c, last.target)

\* start() raised on a component handle that has no root element
C10_Witness ==
  /\ last.op = "start"
  /\ err = "Root element not found"
  /\ el[last.c] = [kind |-> "component", e |-> "-"]

\* sequence s without the element at index i (counted from 0)
Without(s, i) == [k \in 1..(Len(s) - 1) |-> IF k <= i THEN s[k] ELSE s[k + 1]]

\* post is pre with the element at index i taken out and put back at index j
MovedFromTo(pre, post, i, j) ==
  /\ Len(post) = Len(pre)
  /\ post[j + 1] = pre[i + 1]
  /\ Without(post, j) = Without(pre, i)

\* the last operation was an update event on a binding that was set up without
\* customUpdate, and the draggable indices it reported are in the collection
DefaultUpdateInRange ==
  /\ last.op = "onUpdate"
  /\ ~captured[last.c].customUpdate
  /\ last.evt.oldDraggableIndex < Len(last.pre[last.c])
  /\ last.evt.newDraggableIndex < Len(last.pre[last.c])

\* C2: after the add and remove events of a cross-container move, whatever
\* indices the event carries, if the source had an item at the reported old
\* index then that item is in the destination at the reported new index, it
\* and no other item has left the source, and every other item of both
\* collections is where it was, once, in its original order.  (Stated for
\* the events whose new index and new draggable index agree, so that the
\* place in the destination is not in question.)
C2_MoveKeepsEveryItem ==
  (/\ last.op = "onRemove"
   /\ last.evt.pullMode = "move"
   /\ last.evt.newIndex = last.evt.newDraggableIndex
   /\ last.evt.oldIndex < Len(last.pre0[last.c]))
  => LET item == last.pre0[last.c][last.evt.oldIndex + 1]
     IN /\ At(list[last.peer], last.evt.newIndex) = item
        /\ Without(list[last.peer], last.evt.newIndex) = last.pre0[last.peer]
        /\ list[last.c] = Without(last.pre0[last.c], last.evt.oldIndex)

\* C3: after an update event with old index i and new index j in range on a
\* binding without customUpdate, the collection is the one before the event
\* with the element at i taken out and put back at j: the same length, the
\* same items, the others in their order.  (i and j are the event's draggable
\* indices, the ones the update handler reads.)
C3_ReorderMovesItem ==
  DefaultUpdateInRange =>
    /\ MovedFromTo(last.pre[last.c], list[last.c],
                   last.evt.oldDraggableIndex, last.evt.newDraggableIndex)
    /\ \A c \in Controllers \ {last.c} : list[c] = last.pre[c]

\* the first of three items was moved to the end
C3_Witness ==
  /\ DefaultUpdateInRange
  /\ last.evt.oldDraggableIndex = 0
  /\ last.evt.newDraggableIndex = 2
  /\ Len(last.pre[last.c]) = 3
  /\ list[last.c] = <<last.pre[last.c][2], last.pre[last.c][3], last.pre[last.c][1]>>

\* C4: when the source pulls by clone, the source collection after the add and
\* remove events of a cross-container gesture is the one before them.
C4_CloneLeavesSource ==
  (last.op = "onRemove" /\ last.evt.pullMode = "clone")
    => list[last.c] = last.pre0[last.c]

\* C5: the item the add handler inserts is, when the source pulls by clone,
\* the clone made of the dragged item (equal to what the clone function
\* returned for it, and another object than the source item), and, when the
\* source moves, the very item of the source.
C5_CloneInsertsCopy ==
  (/\ last.op = "onAdd"
   /\ last.peer # 0
   /\ err = "none"
   /\ last.evt.oldIndex < Len(last.pre[last.peer]))
  => LET item == last.pre[last.peer][last.evt.oldIndex + 1]
         inserted == At(list[last.c], last.evt.newDraggableIndex)
     IN IF last.evt.pullMode = "clone"
          THEN inserted = drag.stash /\ inserted.ref # item.ref
          ELSE inserted = item

\* the handlers called by the last operation, in order
HandlerCalls == SelectSeq(log, LAMBDA x : x.k \in {"preset", "user"})

\* C6: when an event fires on a live engine and the caller's configuration
\* supplies a handler for it, the binding's handler and then the caller's are
\* called, once each, in that order.
C6_BothHandlersRun ==
  (/\ last.op \in EventNames
   /\ last.op \in OptionValues[options[last.c]].handlers)
  => HandlerCalls =
       << [k |-> "preset", n |-> last.op, by |-> last.c, evt |-> last.evt],
          [k |-> "user", n |-> last.op, by |-> options[last.c], evt |-> last.evt] >>

\* the calls of customUpdate made by the last operation
CustomUpdateCalls == SelectSeq(log, LAMBDA x : x.k = "customUpdate")

\* C7: after an update event, if the binding was set up with a customUpdate
\* handler, that handler was called once, with the event, and every collection
\* is as before the event; if it was set up without one, customUpdate was not
\* called and the item was moved from the old index to the new one.
C7_CustomUpdateReplacesMove ==
  last.op = "onUpdate" =>
    IF captured[last.c].customUpdate
      THEN /\ CustomUpdateCalls =
                <<[k |-> "customUpdate", n |-> "onUpdate", by |-> last.c,
                   evt |-> last.evt]>>
           /\ list = last.pre
      ELSE /\ CustomUpdateCalls = <<>>
           /\ DefaultUpdateInRange =>
                MovedFromTo(last.pre[last.c], list[last.c],
                            last.evt.oldDraggableIndex, last.evt.newDraggableIndex)

\* an update between two different positions went to customUpdate
C7_Witness ==
  /\ last.op = "onUpdate"
  /\ captured[last.c].customUpdate
  /\ last.evt.oldDraggableIndex = 0
  /\ last.evt.newDraggableIndex = 1
  /\ Len(CustomUpdateCalls) = 1

\* C8: an add event whose source element carries no handle of a binding is
\* skipped: no list is resolved, no error is raised and every collection is
\* as before the event.
C8_UnmanagedSourceSkipped ==
  (last.op = "onAdd" /\ getListFromEl(last.evt.from) = 0)
    => err = "none" /\ list = last.pre

\* C9: an add event whose old index has no item in the resolved source
\* collection raises no error and leaves every collection as it was.
C9_MissingItemIsNoOp ==
  (/\ last.op = "onAdd"
   /\ getListFromEl(last.evt.from) # 0
   /\ last.evt.oldIndex >= Len(last.pre[getListFromEl(last.evt.from)]))
  => err = "none" /\ list = last.pre

\* an add event reported index 2 of a source of two items
C9_Witness ==
  /\ last.op = "onAdd"
  /\ getListFromEl(last.evt.from) = 2
  /\ last.evt.oldIndex = 2
  /\ Len(last.pre[2]) = 2
  /\ HandlerCalls # <<>>

\* the engines controller c has constructed
EnginesOf(c) == {id \in DOMAIN engines : engines[id].owner = c}

\* C11: in the state right after the unmount callback of a controller ran,
\* whatever start, pause, resume, destroy and configuration changes came
\* before, nothing was raised, the instance slot of the controller is empty and
\* every engine the controller has constructed is destroyed.
C11_UnmountDestroysAll ==
  last.op = "unmount" =>
    /\ err = "none"
    /\ instance[last.c] = 0
    /\ \A id \in EnginesOf(last.c) : engines[id].destroyed

\* unmount found a live engine, the second one the controller constructed
C11_Witness ==
  /\ last.op = "unmount"
  /\ last.id # 0
  /\ Cardinality(EnginesOf(last.c)) = 2
  /\ engines[last.id].destroyed

\* C12 as claimed: after the mount callback of a controller set up with
\* immediate unset or true a live instance exists; with immediate false the
\* mount callback leaves the slot as it was.
C12_MountLeavesLiveInstance ==
  last.op = "mount" =>
    IF captured[last.c].immediate
      THEN Live(instance[last.c])
      ELSE instance[last.c] = last.id

\* C12 (amended): the mount callback of a controller set up with immediate
\* unset or true calls start(): when the configured element resolves, a new
\* live engine is in the slot afterwards, and when it does not, start's 'Root
\* element not found' is raised and engines and slot are as before.  With
\* immediate false the mount callback constructs nothing and changes no slot,
\* and an empty slot of such a controller is filled by an explicit start only.
C12_MountStartsIffImmediate ==
  [][ /\ (last'.op = "mount" /\ captured[last'.c].immediate) =>
           IF NothingResolves(last'.c, Null)
             THEN /\ err' = "Root element not found"
                  /\ UNCHANGED <<engines, elProps, instance>>
             ELSE /\ err' = "none"
                  /\ Len(engines') = Len(engines) + 1
                  /\ instance'[last'.c] = Len(engines')
                  /\ ~engines'[Len(engines')].destroyed
      /\ (last'.op = "mount" /\ ~captured[last'.c].immediate) =>
           /\ err' = "none"
           /\ UNCHANGED <<engines, elProps, instance>>
      /\ \A c \in Controllers :
           (~captured[c].immediate /\ instance[c] = 0 /\ instance'[c] # 0) =>
             (last'.op = "start" /\ last'.c = c)
    ]_vars

\* the mount callback of a controller set up with immediate unset started it
C12_Witness ==
  /\ last.op = "mount"
  /\ OptionValues[captured[last.c].optionsUnref].immediate = "undefined"
  /\ captured[last.c].immediate
  /\ last.id = 0
  /\ Live(instance[last.c])

\* the keys an operation's log shows set through the option setter of c's engine
OptionCallsBy(calls, c) ==
  {calls[i].n : i \in {j \in DOMAIN calls : calls[j].k = "option" /\ calls[j].by = c}}

C14_DestroyIdempotent ==
  [][ \A c \in Controllers : (last'.op = "destroy" /\ last'.c = c) =>
        /\ err' = "none"
        /\ instance'[c] = 0
        /\ instance[c] = 0 => UNCHANGED <<engines, elProps, instance>>
        /\ destroy(c, engines', elProps', instance') =
             [engines |-> engines', elProps |-> elProps', instance |-> instance']
        /\ \A id \in DOMAIN engines' : engines'[id].destroys <= 1
    ]_vars

\* destroy() was called on a controller whose engine was destroyed already
C14_Witness ==
  /\ last.op = "destroy"
  /\ last.id = 0
  /\ \E id \in EnginesOf(last.c) : engines[id].destroys = 1

\* the operations that go through the instance slot to the engine
Passthroughs == {"pause", "resume", "option", "save", "toArray", "closest"}

\* C15: pause, resume, option, save, toArray and closest raise nothing,
\* construct nothing and change no instance slot and no element.  Called
\* with an empty slot they return undefined and change no engine.  With an
\* instance, pause leaves the engines as they were but for the disabled flag
\* of the engine in the slot, which is true, and resume likewise with false.
C15_PassthroughsAreSafe ==
  [][ \A c \in Controllers : (last'.op \in Passthroughs /\ last'.c = c) =>
        /\ err' = "none"
        /\ instance' = instance
        /\ elProps' = elProps
        /\ Len(engines') = Len(engines)
        /\ instance[c] = 0 => (last'.ret = "undefined" /\ engines' = engines)
        /\ (instance[c] # 0 /\ last'.op = "pause") =>
             engines' = [engines EXCEPT ![instance[c]].disabled = TRUE]
        /\ (instance[c] # 0 /\ last'.op = "resume") =>
             engines' = [engines EXCEPT ![instance[c]].disabled = FALSE]
    ]_vars

\* toArray was called after the controller's engine had been destroyed
C15_Witness ==
  /\ last.op = "toArray"
  /\ last.id = 0
  /\ last.ret = "undefined"
  /\ instance[last.c] = 0
  /\ \E id \in EnginesOf(last.c) : engines[id].destroyed

\* C16: a gesture that ends as a reorder within one list (update), or as a
\* move into another list (add with pull mode move), has not called the clone
\* function: the clone function is called only in a gesture that copies.
C16_CloneOnlyWhenCopying ==
  [][ (\/ last'.op = "onUpdate"
       \/ (last'.op = "onAdd" /\ drag.phase = "started" /\ last'.evt.pullMode = "move"))
      => ~drag.cloned ]_vars

\* the operations that are the binding's add, remove and update handlers
Mutators == {"onAdd", "onRemove", "onUpdate"}

\* C17: on every add, remove and update event, every array object that
\* existed before the event has afterwards the length and contents it had; a
\* collection whose value the event changed is held in an array object that
\* did not exist before the event; and each ref's value is the contents of the
\* array object it holds.
C17_MutationReplacesArray ==
  [][ last'.op \in Mutators =>
        /\ \A o \in DOMAIN arrays.mem :
             o \in DOMAIN arrays'.mem /\ arrays'.mem[o] = arrays.mem[o]
        /\ \A c \in Controllers :
             /\ list'[c] = arrays'.mem[arrays'.obj[c]]
             /\ list'[c] # list[c] =>
                  /\ arrays'.obj[c] # arrays.obj[c]
                  /\ arrays'.obj[c] \notin DOMAIN arrays.mem
    ]_vars

\* a remove event took an item out of its collection: the array object the
\* collection had at setup still holds the initial items, the ref another
C17_Witness ==
  /\ last.op = "onRemove"
  /\ err = "none"
  /\ Len(list[last.c]) < Len(InitialLists[last.c])
  /\ arrays.obj[last.c] # last.c
  /\ arrays.mem[last.c] = InitialLists[last.c]

\* C18: the value of a binding's collection, and the array object holding
\* it, change only in a step that is the add, remove or update handler of
\* that binding: start, destroy, pause, resume, option, save, toArray, closest,
\* a configuration change, mount, unmount, the drag-start handler and the
\* handlers of the other binding leave them as they were.
C18_OnlyOwnHandlersMutate ==
  [][ \A c \in Controllers :
        (list'[c] # list[c] \/ arrays'.obj[c] # arrays.obj[c]) =>
          (last'.op \in Mutators /\ last'.c = c)
    ]_vars

\* the add handler of one binding inserted an item it read from the other
\* binding's collection, which is as it was
C18_Witness ==
  /\ last.op = "onAdd"
  /\ err = "none"
  /\ last.peer \in Controllers \ {last.c}
  /\ Len(list[last.c]) = Len(last.pre[last.c]) + 1
  /\ list[last.peer] = last.pre[last.peer]

\* C19: a start() that raises 'Root element not found' changes no engine, no
\* element and no instance slot: an instance live before the call is the live
\* instance after it, on the element and with the list it had, and an empty
\* slot is empty after it.
C19_FailedStartChangesNothing ==
  [][ \A c \in Controllers :
        (last'.op = "start" /\ last'.c = c /\ err' # "none") =>
          /\ UNCHANGED <<engines, elProps, instance, list, arrays>>
          /\ instance[c] # 0 =>
               /\ ~engines'[instance'[c]].destroyed
               /\ engines'[instance'[c]].el = engines[instance[c]].el
               /\ engines'[instance'[c]].list = engines[instance[c]].list
    ]_vars

\* start() raised while an instance was live, and that instance is live still
C19_Witness ==
  /\ last.op = "start"
  /\ err = "Root element not found"
  /\ last.id # 0
  /\ instance[last.c] = last.id
  /\ Live(last.id)

\* the configuration of controller c when useDraggable was called
SetupOptions(c) == OptionValues[captured[c].optionsUnref]

\* C20: whatever the configuration is changed to afterwards, the drag-start
\* handler stashes what the clone function of the configuration at setup (the
\* default one if it had none) returns for the dragged item; the update
\* handler calls customUpdate and moves nothing if that configuration had a
\* customUpdate, and otherwise moves the item and calls no customUpdate; and
\* the mount callback starts the controller unless immediate was false in it.
C20_CapturedAtSetup ==
  /\ last.op = "onStart" =>
       LET element == At(last.pre[last.c], last.evt.oldIndex)
       IN drag.stash = IF SetupOptions(last.c).clone = "custom"
                         THEN customClone(element, FreshRef(last.pre))
                         ELSE defaultClone(element, FreshRef(last.pre))
  /\ last.op = "onUpdate" =>
       IF SetupOptions(last.c).customUpdate
         THEN Len(CustomUpdateCalls) = 1 /\ list = last.pre
         ELSE /\ CustomUpdateCalls = <<>>
              /\ list[last.c] = moveArrayElement(last.pre[last.c],
                                                 last.evt.oldDraggableIndex,
                                                 last.evt.newDraggableIndex)
  /\ last.op = "mount" =>
       IF SetupOptions(last.c).immediate = "false"
         THEN instance[last.c] = last.id
         ELSE instance[last.c] # last.id /\ Live(instance[last.c])

\* an update event moved an item by the default move although the
\* configuration has had a customUpdate since a change after setup
C20_Witness ==
  /\ last.op = "onUpdate"
  /\ ~SetupOptions(last.c).customUpdate
  /\ OptionValues[options[last.c]].customUpdate
  /\ list[last.c] # last.pre[last.c]

====
